---- MODULE Spec2Model ----
(***************************************************************************)
(* Model of the order-up api package (the handlers postOrders, getOrder,   *)
(* chargeOrder, cancelOrder and fulFillOrder), the process-wide charge     *)
(* mutex, the two remote services and the storage interface the handlers   *)
(* are bound to.                                                           *)
(*                                                                         *)
(* Every HTTP request is a process.  A handler is cut into steps at its    *)
(* blocking calls (storage call, mutex acquisition, remote request), so    *)
(* that concurrent requests interleave exactly where goroutines can.       *)
(* Amounts are int64 in the code; the model uses unbounded integers, the   *)
(* bounded prices and quantities below stay far from the int64 range.      *)
(***************************************************************************)
EXTENDS Integers, Sequences, FiniteSets, TLC

\* ------------------------------------------------------------ bounds ----
\* number of HTTP requests served in one behaviour
NumReqs == 2
\* longest line-item list of a stored order
MaxItems == 2
\* longest customerEmail of a POST /orders body
MaxEmailLen == 2

\* ------------------------------------------------------ input domains ----
Reqs == 1..NumReqs
StoredIds == {"o1"}
RequestIds == {"o1", "missing"}
CardTokens == {"amex"}
Statuses == {"Pending", "Charged", "Fulfilled", "Cancelled"}

Item(description, priceCents, quantity) ==
    [description |-> description, priceCents |-> priceCents, quantity |-> quantity]

\* a priced item, a credit that cancels it, and a free item
LineItem == {Item("sponge", 2, 2), Item("credit", -4, 1), Item("gift", 0, 3)}
ItemLists == UNION {[1..n -> LineItem] : n \in 1..MaxItems}

\* strings are sequences of characters
Chars == {"a", "@"}
Emails == UNION {[1..n -> Chars] : n \in 0..MaxEmailLen}
StoredEmails == {<<"a", "@", "a">>}
Order == [customerEmail : StoredEmails, lineItems : ItemLists, status : Statuses]

\* the zero value Order{} a failed GetOrder leaves in the handler's variable
EmptyOrder == [customerEmail |-> <<>>, lineItems |-> <<>>, status |-> "Pending"]

\* ------------------------------------------------------------- state ----
VARIABLES
    orders,   \* the Repository: stored id -> Order
    mu,       \* instance.mu: TRUE while some goroutine holds the charge mutex
    req,      \* per request: handler, inputs, position and local variables
    log,      \* per request: the outbound calls it has issued, in order
    ledger    \* charge service: per request, the amounts it answered 201 to

vars == <<orders, mu, req, log, ledger>>

\* ------------------------------------------------- outbound call log ----
ChargeEv(token, amount) == <<"charge", token, "", amount>>
SetEv(id, status) == <<"set", id, status, 0>>
FulfillEv(id, description, quantity) == <<"fulfill", id, description, quantity>>
InsertEv(id, status, total) == <<"insert", id, status, total>>
UpdateEv(id, status) == <<"update", id, status, 0>>

\* ----------------------------------------------------- pure functions ----
RECURSIVE SumItems(_)
SumItems(items) ==
    IF items = <<>> THEN 0
    ELSE items[1].priceCents * items[1].quantity + SumItems(Tail(items))

\* storage.Order.TotalCents: the sum of priceCents x quantity
TotalCents(order) == SumItems(order.lineItems)

\* refundLineItems' loop: totalRefund += PriceCents * Quantity
RECURSIVE totalRefundFrom(_, _)
totalRefundFrom(items, acc) ==
    IF items = <<>> THEN acc
    ELSE totalRefundFrom(Tail(items), acc + items[1].priceCents * items[1].quantity)

totalRefund(lineItems) == totalRefundFrom(lineItems, 0)

refundAmountNotNegated(lineItems) == totalRefund(lineItems)

\* the amount refundLineItems posts and returns
refundAmount(lineItems) == 0 - totalRefund(lineItems)

\* ------------------------------------------------------- responses ----
Response(code, label, cents) == [code |-> code, label |-> label, cents |-> cents]
NoResponse == Response("none", "", 0)
ErrorResponse(code) == Response(code, "error", 0)

IdleReq ==
    [op |-> "none", id |-> "", cardToken |-> "", pc |-> "idle",
     email |-> <<>>, lineItems |-> <<>>, insertErr |-> "", ctxDone |-> FALSE,
     status |-> "", dbErr |-> "", updErr |-> "", err |-> "", retID |-> "",
     got |-> [ID |-> "", customerEmail |-> <<>>, lineItems |-> <<>>,
              status |-> "Pending"],
     list |-> {},
     order |-> EmptyOrder, getErr |-> "", amount |-> 0, postErr |-> "",
     idx |-> 0, fulfillErr |-> "", setErr |-> "", resp |-> NoResponse]

Init ==
    /\ orders \in [StoredIds -> Order]
    /\ mu = FALSE
    /\ req = [r \in Reqs |-> IdleReq]
    /\ log = [r \in Reqs |-> <<>>]
    /\ ledger = [r \in Reqs |-> <<>>]

\* ------------------------------------------------------ Repository ----
\* The handlers reach storage through the mocks.StorageInstance interface;
\* the model gives it the Repository contract: Get returns the stored order,
\* SetStatus changes the status field only, and either call may fail.
\* GetOrder(id): the stored order, ErrOrderNotFound, or a storage failure
GetOrderResults(id) ==
    (IF id \in DOMAIN orders
        THEN {[err |-> "nil", order |-> orders[id]]}
        ELSE {[err |-> "ErrOrderNotFound", order |-> EmptyOrder]})
    \cup {[err |-> "error", order |-> EmptyOrder]}

\* SetOrderStatus(id, status): updates the status only, or fails
SetOrderStatusResults(id, status) ==
    (IF id \in DOMAIN orders
        THEN {[err |-> "nil", orders |-> [orders EXCEPT ![id].status = status]]}
        ELSE {[err |-> "ErrOrderNotFound", orders |-> orders]})
    \cup {[err |-> "error", orders |-> orders]}

\* ------------------------------------------------- handler entries ----
\* requests are taken in slot order: slots are interchangeable
CanBegin(r) ==
    /\ req[r].pc = "idle"
    /\ \A q \in Reqs : q < r => req[q].pc # "idle"

\* the handler's locals once the body is bound (or 400 when BindJSON fails);
\* binding reads the request alone, so it is taken with the GetOrder after it
Begun(op, id, token, bindOK) ==
    IF bindOK
    THEN [IdleReq EXCEPT !.op = op, !.id = id, !.cardToken = token, !.pc = "GetOrder"]
    ELSE [IdleReq EXCEPT !.op = op, !.id = id, !.pc = "done",
                         !.resp = [code |-> "BadRequest", label |-> "error", cents |-> 0]]

\* c.JSON(code, body) followed by return
Finish(me, response) == [me EXCEPT !.pc = "done", !.resp = response]

\* ------------------------------------------------------ chargeOrder ----
chargeIneligibleOnlyCharged(order) == order.status = "Charged"

\* the legality check of chargeOrder
chargeIneligible(order) == order.status = "Charged" \/ order.status = "Fulfilled"

chargeNeedsGatewayAlways(order) == TRUE

\* the gateway is called unless the total is exactly zero
chargeNeedsGateway(order) == TotalCents(order) # 0

chargeAmountFixed(order) == 1

\* AmountCents of the charge request
chargeAmount(order) == TotalCents(order)

\* POST /orders/:id/charge: BindJSON, c.Param("id"), GetOrder and the checks
\* that follow it, up to the next blocking call
chargeOrderGetOrder(r) ==
    /\ CanBegin(r)
    /\ \E id \in RequestIds, token \in CardTokens, bindOK \in BOOLEAN :
       \E res \in GetOrderResults(id) :
         LET begun == Begun("charge", id, token, bindOK)
             me == [begun EXCEPT !.order = res.order, !.getErr = res.err] IN
         req' = [req EXCEPT ![r] =
           IF ~bindOK THEN begun ELSE
           IF res.err = "ErrOrderNotFound" THEN Finish(me, ErrorResponse("NotFound"))
           ELSE IF res.err # "nil" THEN Finish(me, ErrorResponse("InternalServerError"))
           ELSE IF chargeIneligible(res.order) THEN Finish(me, ErrorResponse("Conflict"))
           ELSE IF chargeNeedsGateway(res.order)
                THEN [me EXCEPT !.amount = chargeAmount(res.order), !.pc = "Lock"]
           ELSE [me EXCEPT !.pc = "SetOrderStatus"]]
    /\ UNCHANGED <<orders, mu, log, ledger>>

chargeAbortsNever(postErr) == FALSE

\* if err != nil after innerChargeOrder: respond 500 and return
chargeAbortsOnError(postErr) == postErr # "nil"

\* the status chargeOrder writes
chargeNewStatus == "Charged"

\* ChargedCents of chargeOrderRes
chargedCents(order) == TotalCents(order)

writeAbortsNever(setErr) == FALSE

\* if err != nil after SetOrderStatus: respond 500 and return
writeAbortsOnError(setErr) == setErr # "nil"

\* SetOrderStatus(order.ID, Charged) and the response
chargeOrderSetOrderStatus(r) ==
    /\ req[r].pc = "SetOrderStatus" /\ req[r].op = "charge"
    /\ log' = [log EXCEPT ![r] = Append(@, SetEv(req[r].id, chargeNewStatus))]
    /\ \E res \in SetOrderStatusResults(req[r].id, chargeNewStatus) :
         /\ orders' = res.orders
         /\ LET me == [req[r] EXCEPT !.setErr = res.err] IN
            req' = [req EXCEPT ![r] =
              IF writeAbortsOnError(res.err) THEN Finish(me, ErrorResponse("InternalServerError"))
              ELSE Finish(me, Response("OK", "", chargedCents(req[r].order)))]
    /\ UNCHANGED <<mu, ledger>>

\* ------------------------------------------------- innerChargeOrder ----
GatewayOutcomes == {"Created", "OtherStatus", "TransportError"}

\* i.mu.Lock() returns only when the mutex is free
innerChargeOrderLockAlways == TRUE

innerChargeOrderLockFree == mu = FALSE

\* i.mu.Lock(), then chargeService.Post sends the request to the charge service
innerChargeOrderPost(r) ==
    /\ req[r].pc = "Lock"
    /\ innerChargeOrderLockFree
    /\ mu' = TRUE
    /\ log' = [log EXCEPT ![r] = Append(@, ChargeEv(req[r].cardToken, req[r].amount))]
    /\ req' = [req EXCEPT ![r].pc = "InFlight"]
    /\ UNCHANGED <<orders, ledger>>

\* innerChargeOrder's error: a transport error or any status but 201
innerChargeOrderErr(outcome) == IF outcome # "Created" THEN "error" ELSE "nil"

cancelAbortsNever(postErr) == FALSE

\* if err != nil after refundLineItems: respond 500 and return
cancelAbortsOnError(postErr) == postErr # "nil"

innerChargeOrderUnlocksOnSuccess(outcome) == outcome = "Created"

\* i.mu.Unlock() follows Post whatever Post returned
innerChargeOrderUnlocks(outcome) == TRUE

\* chargeService.Post returns, i.mu.Unlock(), and innerChargeOrder returns to
\* the handler that called it
innerChargeOrderReturn(r) ==
    /\ req[r].pc = "InFlight"
    /\ \E outcome \in GatewayOutcomes :
         LET postErr == innerChargeOrderErr(outcome)
             aborts == IF req[r].op = "charge" THEN chargeAbortsOnError(postErr)
                       ELSE cancelAbortsOnError(postErr)
             me == [req[r] EXCEPT !.postErr = postErr]
         IN /\ mu' = ~innerChargeOrderUnlocks(outcome)
            /\ ledger' = [ledger EXCEPT ![r] =
                            IF outcome = "Created" THEN Append(@, req[r].amount) ELSE @]
            /\ req' = [req EXCEPT ![r] =
                 IF aborts THEN Finish(me, ErrorResponse("InternalServerError"))
                 ELSE [me EXCEPT !.pc = "SetOrderStatus"]]
    /\ UNCHANGED <<orders, log>>

\* ------------------------------------------------------ cancelOrder ----
\* if order.Status == storage.OrderStatusCharged
cancelRefunds(order) == order.status = "Charged"

cancelConflictNever(order) == FALSE

cancelConflictTerminal(order) ==
    order.status = "Fulfilled" \/ order.status = "Cancelled"

\* else if order.Status == storage.OrderStatusFulfilled
cancelConflict(order) == order.status = "Fulfilled"

\* POST /orders/:id/cancel: BindJSON, c.Param("id"), GetOrder and the branch
\* on the loaded status
cancelOrderGetOrder(r) ==
    /\ CanBegin(r)
    /\ \E id \in RequestIds, token \in CardTokens, bindOK \in BOOLEAN :
       \E res \in GetOrderResults(id) :
         LET begun == Begun("cancel", id, token, bindOK)
             me == [begun EXCEPT !.order = res.order, !.getErr = res.err] IN
         req' = [req EXCEPT ![r] =
           IF ~bindOK THEN begun ELSE
           IF res.err # "nil" THEN Finish(me, ErrorResponse("InternalServerError"))
           ELSE IF cancelRefunds(res.order)
                THEN [me EXCEPT !.amount = refundAmount(res.order.lineItems),
                                !.pc = "Lock"]
           ELSE IF cancelConflict(res.order) THEN Finish(me, ErrorResponse("Conflict"))
           ELSE Finish(me, Response("OK", "cancelled", 0))]
    /\ UNCHANGED <<orders, mu, log, ledger>>

\* the status cancelOrder writes after a refund
cancelNewStatus == "Cancelled"

\* SetOrderStatus(id, Cancelled) after the refund, and the response
cancelOrderSetOrderStatus(r) ==
    /\ req[r].pc = "SetOrderStatus" /\ req[r].op = "cancel"
    /\ log' = [log EXCEPT ![r] = Append(@, SetEv(req[r].id, cancelNewStatus))]
    /\ \E res \in SetOrderStatusResults(req[r].id, cancelNewStatus) :
         /\ orders' = res.orders
         /\ LET me == [req[r] EXCEPT !.setErr = res.err] IN
            req' = [req EXCEPT ![r] =
              IF writeAbortsOnError(res.err) THEN Finish(me, ErrorResponse("InternalServerError"))
              ELSE Finish(me, Response("OK", "cancelled", req[r].amount))]
    /\ UNCHANGED <<mu, ledger>>

\* ----------------------------------------------------- fulFillOrder ----
FulfillOutcomes == {"OK", "OtherStatus", "TransportError"}

fulfillNotChargedOnlyPending(order) == order.status = "Pending"

\* if order.Status != storage.OrderStatusCharged
fulfillNotCharged(order) == order.status # "Charged"

\* PUT /orders/:id/fulfill: no body is bound; GetOrder and the status check
fulFillOrderGetOrder(r) ==
    /\ CanBegin(r)
    /\ \E id \in RequestIds :
       \E res \in GetOrderResults(id) :
         LET me == [Begun("fulfill", id, "", TRUE) EXCEPT !.order = res.order,
                                                          !.getErr = res.err] IN
         req' = [req EXCEPT ![r] =
           IF res.err # "nil" THEN Finish(me, ErrorResponse("InternalServerError"))
           ELSE IF fulfillNotCharged(res.order) THEN Finish(me, ErrorResponse("BadRequest"))
           ELSE IF res.order.lineItems = <<>> THEN [me EXCEPT !.pc = "SetOrderStatus"]
           ELSE [me EXCEPT !.idx = 1, !.pc = "fulfillOrders"]]
    /\ UNCHANGED <<orders, mu, log, ledger>>

\* innerFulfillOrder's error: a transport error or any status but 200
innerFulfillOrderErr(outcome) == IF outcome # "OK" THEN "error" ELSE "nil"

fulfillArgsPriceAsQuantity(orderID, item) ==
    FulfillEv(orderID, item.description, item.priceCents)

\* fulfillmentServiceFulfillArgs built for one line item
fulfillArgs(orderID, item) == FulfillEv(orderID, item.description, item.quantity)

fulfillAbortsNever(err) == FALSE

\* if err != nil in the loop: return false and the error
fulfillAbortsOnError(err) == err # "nil"

\* one iteration of fulfillOrders' loop: innerFulfillOrder for item idx
fulfillOrdersItem(r) ==
    /\ req[r].pc = "fulfillOrders"
    /\ LET item == req[r].order.lineItems[req[r].idx] IN
         /\ log' = [log EXCEPT ![r] = Append(@, fulfillArgs(req[r].id, item))]
         /\ \E outcome \in FulfillOutcomes :
              LET err == innerFulfillOrderErr(outcome)
                  me == [req[r] EXCEPT !.fulfillErr = err]
              IN req' = [req EXCEPT ![r] =
                   IF fulfillAbortsOnError(err)
                   THEN Finish(me, ErrorResponse("InternalServerError"))
                   ELSE IF req[r].idx = Len(req[r].order.lineItems)
                        THEN [me EXCEPT !.pc = "SetOrderStatus"]
                        ELSE [me EXCEPT !.idx = @ + 1]]
    /\ UNCHANGED <<orders, mu, ledger>>

\* SetOrderStatus(id, Fulfilled) once every item was accepted, and the response
fulFillOrderSetOrderStatus(r) ==
    /\ req[r].pc = "SetOrderStatus" /\ req[r].op = "fulfill"
    /\ log' = [log EXCEPT ![r] = Append(@, SetEv(req[r].id, "Fulfilled"))]
    /\ \E res \in SetOrderStatusResults(req[r].id, "Fulfilled") :
         /\ orders' = res.orders
         /\ LET me == [req[r] EXCEPT !.setErr = res.err] IN
            req' = [req EXCEPT ![r] =
              IF res.err # "nil" THEN Finish(me, ErrorResponse("InternalServerError"))
              ELSE Finish(me, Response("OK", "true", 0))]
    /\ UNCHANGED <<mu, ledger>>

\* ------------------------------------------------------- postOrders ----
\* InsertOrder(order) with an empty ID: the Repository assigns an unused
\* identifier and stores the order, or reports ErrOrderExists or a failure
GeneratedIds == {"o1"}

InsertOrderResults(order) ==
    {[err |-> "nil", id |-> i,
      orders |-> [x \in DOMAIN orders \cup {i} |->
                    IF x = i THEN order ELSE orders[x]]] :
        i \in GeneratedIds \ DOMAIN orders}
    \cup {[err |-> "ErrOrderExists", id |-> "", orders |-> orders],
          [err |-> "error", id |-> "", orders |-> orders]}

\* strings.Contains(s, "@")
ContainsAt(s) == \E i \in 1..Len(s) : s[i] = "@"

postOrdersValidEmailNonEmpty(email) == email # <<>>

\* the customerEmail check of postOrders
postOrdersValidEmail(email) == ContainsAt(email)

\* the lineItems check of postOrders: len(args.LineItems) < 1 is rejected
postOrdersHasItems(lineItems) == Len(lineItems) >= 1

postOrdersNewStatusCharged == "Charged"

\* Status of the storage.Order postOrders builds
postOrdersNewStatus == "Pending"

\* c.JSON on a response that may already be written: the status line and
\* body sent first stay what the client reads first
WriteJSON(me, response) ==
    IF me.resp = NoResponse THEN [me EXCEPT !.resp = response] ELSE me

\* at most one POST /orders is served in a behaviour
CanCreate(r) == CanBegin(r) /\ \A q \in Reqs : req[q].op # "create"

\* POST /orders: BindJSON, the validations and the order built from the body;
\* the negative-total branch writes 400 and does not return
postOrdersBegin(r) ==
    /\ CanCreate(r)
    /\ \E email \in Emails, lineItems \in ItemLists \cup {<<>>}, bindOK \in BOOLEAN :
         LET me == [IdleReq EXCEPT !.op = "create", !.email = email,
                                   !.lineItems = lineItems]
             order == [customerEmail |-> email, lineItems |-> lineItems,
                       status |-> postOrdersNewStatus]
         IN req' = [req EXCEPT ![r] =
              IF ~bindOK
              THEN Finish([IdleReq EXCEPT !.op = "create"], ErrorResponse("BadRequest"))
              ELSE IF ~postOrdersValidEmail(email)
                   THEN Finish(me, ErrorResponse("BadRequest"))
              ELSE IF ~postOrdersHasItems(lineItems)
                   THEN Finish(me, ErrorResponse("BadRequest"))
              ELSE IF TotalCents(order) < 0
                   THEN [WriteJSON(me, ErrorResponse("BadRequest"))
                           EXCEPT !.order = order, !.pc = "InsertOrder"]
              ELSE [me EXCEPT !.order = order, !.pc = "InsertOrder"]]
    /\ UNCHANGED <<orders, mu, log, ledger>>

\* InsertOrder, order.ID = id and the response
postOrdersInsertOrder(r) ==
    /\ req[r].pc = "InsertOrder" /\ req[r].op = "create"
    /\ log' = [log EXCEPT ![r] =
                 Append(@, InsertEv("", req[r].order.status, TotalCents(req[r].order)))]
    /\ \E res \in InsertOrderResults(req[r].order) :
         /\ orders' = res.orders
         /\ LET me == [req[r] EXCEPT !.insertErr = res.err, !.pc = "done"] IN
            req' = [req EXCEPT ![r] =
              IF res.err = "ErrOrderExists"
              THEN WriteJSON(me, ErrorResponse("Conflict"))
              ELSE IF res.err # "nil"
                   THEN WriteJSON(me, ErrorResponse("InternalServerError"))
              ELSE WriteJSON([me EXCEPT !.id = res.id], Response("Created", res.id, 0))]
    /\ UNCHANGED <<mu, ledger>>

\* --------------------------------------------------------- getOrder ----
\* GET /orders/:id: c.Param("id"), GetOrder and the response
getOrderGetOrder(r) ==
    /\ CanBegin(r)
    /\ \E id \in RequestIds :
       \E res \in GetOrderResults(id) :
         LET me == [Begun("get", id, "", TRUE) EXCEPT !.order = res.order,
                                                      !.getErr = res.err] IN
         req' = [req EXCEPT ![r] =
           IF res.err = "ErrOrderNotFound" THEN Finish(me, ErrorResponse("NotFound"))
           ELSE IF res.err # "nil" THEN Finish(me, ErrorResponse("InternalServerError"))
           ELSE Finish(me, Response("OK", id, 0))]
    /\ UNCHANGED <<orders, mu, log, ledger>>

\* ------------------------------------------------- storage.Instance ----
\* storage.Instance over the Mongo collection "orders": `orders` maps the _id
\* of each stored document to the document, and every call is a request slot

\* storage.Order with its ID
OrderStruct(ID, customerEmail, lineItems, status) ==
    [ID |-> ID, customerEmail |-> customerEmail, lineItems |-> lineItems,
     status |-> status]

\* Order{}
ZeroOrder == OrderStruct("", <<>>, <<>>, "Pending")

\* the filter value of GetOrders that selects every status
AllStatuses == "all"

\* identifiers callers pass: none, and two chosen by the caller
StorageIds == {"", "o1", "o2"}

\* the orders callers insert, before the ID is chosen
StorageSamples ==
    {OrderStruct("", <<"a", "@", "a">>,
                 <<Item("sponge", 2, 2), Item("gift", 0, 3)>>, "Charged"),
     OrderStruct("", <<"a", "@">>, <<>>, "Fulfilled")}

\* identifiers callers look up: those, and any a document is stored under
LookupIds == StorageIds \cup DOMAIN orders

\* statuses callers pass to SetOrderStatus
SetStatuses == {"Fulfilled", "Cancelled"}

\* uuid.New().String(): an identifier no stored document has
Uuids == {"u1", "u2", "u3", "u4"}
NewUuid == CHOOSE u \in Uuids : u \notin DOMAIN orders

updateDropsStatus(id, order) ==
    [id |-> id, customerEmail |-> order.customerEmail,
     status |-> "Pending", lineItems |-> order.lineItems]

\* the $set document of InsertOrder
update(id, order) ==
    [id |-> id, customerEmail |-> order.customerEmail,
     status |-> order.status, lineItems |-> order.lineItems]

\* Decode of a stored document into a storage.Order
Decode(doc) == OrderStruct(doc.id, doc.customerEmail, doc.lineItems, doc.status)

\* collection.FindOne by _id, then Decode: the document, mongo.ErrNoDocuments,
\* or a failure of the driver
FindOneResults(id) ==
    (IF id \in DOMAIN orders
        THEN {[err |-> "nil", doc |-> orders[id]]}
        ELSE {[err |-> "ErrNoDocuments", doc |-> update("", ZeroOrder)]})
    \cup {[err |-> "error", doc |-> update("", ZeroOrder)]}

\* collection.UpdateOne with SetUpsert(true): the document with that _id is
\* created or overwritten, or the driver fails
UpdateOneResults(id, doc) ==
    {[err |-> "nil",
      orders |-> [x \in DOMAIN orders \cup {id} |->
                    IF x = id THEN doc ELSE orders[x]]],
     [err |-> "error", orders |-> orders]}

\* resultDoc.ID = id
getOrderPatch(id, order) == [order EXCEPT !.ID = id]

\* storage.Instance.GetOrder
GetOrder(r) ==
    /\ CanBegin(r)
    /\ \E id \in LookupIds : \E res \in FindOneResults(id) :
         LET me == [IdleReq EXCEPT !.op = "GetOrder", !.id = id, !.pc = "done"] IN
         req' = [req EXCEPT ![r] =
           IF id = "" THEN [me EXCEPT !.err = "error"]
           ELSE IF res.err = "ErrNoDocuments"
                THEN [me EXCEPT !.dbErr = res.err, !.err = "ErrOrderNotFound"]
           ELSE IF res.err # "nil"
                THEN [me EXCEPT !.dbErr = res.err, !.err = "error"]
           ELSE [me EXCEPT !.dbErr = res.err, !.err = "nil",
                           !.got = getOrderPatch(id, Decode(res.doc))]]
    /\ UNCHANGED <<orders, mu, log, ledger>>

getOrdersMatchesAlways(status, doc) == TRUE

\* the filter of GetOrders: bson.D{} for the sentinel, {status: status} else
getOrdersMatches(status, doc) == status = AllStatuses \/ doc.status = status

\* storage.Instance.GetOrders
GetOrders(r) ==
    /\ CanBegin(r)
    /\ \E status \in Statuses \cup {AllStatuses}, findErr \in {"nil", "error"} :
         LET me == [IdleReq EXCEPT !.op = "GetOrders", !.status = status,
                                   !.dbErr = findErr, !.pc = "done"] IN
         req' = [req EXCEPT ![r] =
           IF findErr # "nil" THEN [me EXCEPT !.err = "error"]
           ELSE [me EXCEPT !.err = "nil",
                   !.list = {Decode(orders[i]) :
                               i \in {x \in DOMAIN orders :
                                        getOrdersMatches(status, orders[x])}}]]
    /\ UNCHANGED <<orders, mu, log, ledger>>

\* storage.Instance.SetOrderStatus: the lookup, and nothing after it
SetOrderStatus(r) ==
    /\ CanBegin(r)
    /\ \E id \in LookupIds, status \in SetStatuses : \E res \in FindOneResults(id) :
         LET me == [IdleReq EXCEPT !.op = "SetOrderStatus", !.id = id,
                                   !.status = status, !.pc = "done"] IN
         req' = [req EXCEPT ![r] =
           IF id = "" THEN [me EXCEPT !.err = "nil"]
           ELSE IF res.err = "ErrNoDocuments"
                THEN [me EXCEPT !.dbErr = res.err, !.err = "nil"]
           ELSE IF res.err # "nil"
                THEN [me EXCEPT !.dbErr = res.err, !.err = "error"]
           ELSE [me EXCEPT !.dbErr = res.err, !.err = "ErrOrderExists"]]
    /\ UNCHANGED <<orders, mu, log, ledger>>

insertOrderRejectsNever(findErr) == FALSE

\* InsertOrder refuses an ID whose document FindOne decoded
insertOrderRejects(findErr) == findErr = "nil"

\* storage.Instance.InsertOrder with order.ID set: the existence check
InsertOrderFindOne(r) ==
    /\ CanBegin(r)
    /\ \E id \in StorageIds \ {""}, sample \in StorageSamples :
       \E res \in FindOneResults(id) :
         LET me == [IdleReq EXCEPT !.op = "InsertOrder", !.id = id,
                                   !.got = [sample EXCEPT !.ID = id],
                                   !.dbErr = res.err] IN
         req' = [req EXCEPT ![r] =
           IF insertOrderRejects(res.err)
           THEN [me EXCEPT !.err = "ErrOrderExists", !.pc = "done"]
           ELSE IF res.err # "ErrNoDocuments"
                THEN [me EXCEPT !.err = "error", !.pc = "done"]
           ELSE [me EXCEPT !.pc = "UpdateOne"]]
    /\ UNCHANGED <<orders, mu, log, ledger>>

\* storage.Instance.InsertOrder with order.ID set: the upsert
InsertOrderUpdateOne(r) ==
    /\ req[r].pc = "UpdateOne" /\ req[r].op = "InsertOrder"
    /\ log' = [log EXCEPT ![r] = Append(@, UpdateEv(req[r].id, req[r].got.status))]
    /\ \E res \in UpdateOneResults(req[r].id, update(req[r].id, req[r].got)) :
         /\ orders' = res.orders
         /\ req' = [req EXCEPT ![r] =
              IF res.err # "nil"
              THEN [req[r] EXCEPT !.updErr = res.err, !.err = "error", !.pc = "done"]
              ELSE [req[r] EXCEPT !.updErr = res.err, !.err = "nil",
                                  !.retID = req[r].id, !.pc = "done"]]
    /\ UNCHANGED <<mu, ledger>>

\* storage.Instance.InsertOrder with an empty order.ID: new_id and the upsert
InsertOrderNewID(r) ==
    /\ CanBegin(r)
    /\ \E sample \in StorageSamples :
         LET new_id == NewUuid
             me == [IdleReq EXCEPT !.op = "InsertOrder", !.got = sample, !.pc = "done"]
         IN
         /\ log' = [log EXCEPT ![r] = Append(@, UpdateEv(new_id, sample.status))]
         /\ \E res \in UpdateOneResults(new_id, update(new_id, sample)) :
              /\ orders' = res.orders
              /\ req' = [req EXCEPT ![r] =
                   IF res.err # "nil"
                   THEN [me EXCEPT !.updErr = res.err, !.err = "ErrOrderExists"]
                   ELSE [me EXCEPT !.updErr = res.err, !.err = "nil",
                                   !.retID = new_id]]
    /\ UNCHANGED <<mu, ledger>>

\* ---------------------------------------------------- specification ----
Next ==
    \E r \in Reqs :
        \/ chargeOrderGetOrder(r)
        \/ chargeOrderSetOrderStatus(r)
        \/ cancelOrderGetOrder(r)
        \/ cancelOrderSetOrderStatus(r)
        \/ fulFillOrderGetOrder(r)
        \/ fulfillOrdersItem(r)
        \/ fulFillOrderSetOrderStatus(r)
        \/ innerChargeOrderPost(r)
        \/ innerChargeOrderReturn(r)

Spec == Init /\ [][Next]_vars

\* the caller goes away or its deadline passes while the handler runs:
\* c.Request.Context() is done from then on
ctxCancel(r) ==
    /\ req[r].pc \notin {"idle", "done"}
    /\ ~req[r].ctxDone
    /\ req' = [req EXCEPT ![r].ctxDone = TRUE]
    /\ UNCHANGED <<orders, mu, log, ledger>>

\* the lifecycle handlers with callers that may cancel
NextCtx ==
    \/ Next
    \/ \E r \in Reqs : ctxCancel(r)

SpecCtx == Init /\ [][NextCtx]_vars

\* Charge and Cancel requests under fair scheduling: a handler that can take
\* its next step takes it, and the charge service answers every request;
\* the lock does not depend on the line items, so stored orders have one
InitLive ==
    /\ orders \in [StoredIds -> {o \in Order : Len(o.lineItems) = 1}]
    /\ mu = FALSE
    /\ req = [r \in Reqs |-> IdleReq]
    /\ log = [r \in Reqs |-> <<>>]
    /\ ledger = [r \in Reqs |-> <<>>]

NextLive ==
    \E r \in Reqs :
        \/ chargeOrderGetOrder(r)
        \/ chargeOrderSetOrderStatus(r)
        \/ cancelOrderGetOrder(r)
        \/ cancelOrderSetOrderStatus(r)
        \/ innerChargeOrderPost(r)
        \/ innerChargeOrderReturn(r)

Fairness ==
    \A r \in Reqs :
        /\ WF_vars(innerChargeOrderPost(r))
        /\ WF_vars(innerChargeOrderReturn(r))
        /\ WF_vars(chargeOrderSetOrderStatus(r))
        /\ WF_vars(cancelOrderSetOrderStatus(r))

SpecLive == InitLive /\ [][NextLive]_vars /\ Fairness

\* no handler is running
Quiescent == \A r \in Reqs : req[r].pc \in {"idle", "done"}

\* the lifecycle handlers served one request at a time, on orders that were
\* created and not touched since
InitSeq ==
    /\ orders \in [StoredIds -> {o \in Order : o.status = "Pending"}]
    /\ mu = FALSE
    /\ req = [r \in Reqs |-> IdleReq]
    /\ log = [r \in Reqs |-> <<>>]
    /\ ledger = [r \in Reqs |-> <<>>]

NextSeq ==
    \E r \in Reqs :
        \/ Quiescent /\ chargeOrderGetOrder(r)
        \/ Quiescent /\ cancelOrderGetOrder(r)
        \/ Quiescent /\ fulFillOrderGetOrder(r)
        \/ chargeOrderSetOrderStatus(r)
        \/ cancelOrderSetOrderStatus(r)
        \/ fulfillOrdersItem(r)
        \/ fulFillOrderSetOrderStatus(r)
        \/ innerChargeOrderPost(r)
        \/ innerChargeOrderReturn(r)

SpecSeq == InitSeq /\ [][NextSeq]_vars

\* calls of storage.Instance on a collection that is empty or holds one
\* order inserted earlier
InitStorage ==
    /\ orders \in {[id \in {} |-> update("", ZeroOrder)]}
                  \cup {[id \in {"o1"} |-> update("o1", sample)] :
                           sample \in StorageSamples}
    /\ mu = FALSE
    /\ req = [r \in Reqs |-> IdleReq]
    /\ log = [r \in Reqs |-> <<>>]
    /\ ledger = [r \in Reqs |-> <<>>]

NextStorage ==
    \E r \in Reqs :
        \/ GetOrder(r)
        \/ GetOrders(r)
        \/ SetOrderStatus(r)
        \/ InsertOrderFindOne(r)
        \/ InsertOrderUpdateOne(r)
        \/ InsertOrderNewID(r)

SpecStorage == InitStorage /\ [][NextStorage]_vars

\* POST /orders and GET /orders/:id against a store that starts empty
InitCreate ==
    /\ orders = [id \in {} |-> EmptyOrder]
    /\ mu = FALSE
    /\ req = [r \in Reqs |-> IdleReq]
    /\ log = [r \in Reqs |-> <<>>]
    /\ ledger = [r \in Reqs |-> <<>>]

NextCreate ==
    \E r \in Reqs :
        \/ postOrdersBegin(r)
        \/ postOrdersInsertOrder(r)
        \/ getOrderGetOrder(r)

SpecCreate == InitCreate /\ [][NextCreate]_vars

\* ------------------------------------------- vocabulary of the claims ----
Done(r) == req[r].pc = "done"

\* request r runs handler op and its GetOrder returned an order in `status`
Loaded(r, op, status) ==
    /\ req[r].op = op
    /\ req[r].getErr = "nil"
    /\ req[r].order.status = status

\* the calls of one kind request r has issued, in order
Events(r, kind) == SelectSeq(log[r], LAMBDA e : e[1] = kind)

\* no request other than r has issued a SetOrderStatus for r's order
NoOtherWrite(r) ==
    \A q \in Reqs \ {r} :
        \A i \in 1..Len(log[q]) :
            ~(log[q][i][1] = "set" /\ log[q][i][2] = req[r].id)

PersistedStatus(r) == orders[req[r].id].status

\* ------------------------------------------------------------ claims ----
\* C1: Charge on a Pending order with non-zero total T, when the gateway
\* accepts and the write succeeds, issues exactly one gateway call for T,
\* then writes Charged, and returns chargedCents = T.
C1_ChargePending ==
    \A r \in Reqs :
        (/\ Done(r) /\ Loaded(r, "charge", "Pending")
         /\ TotalCents(req[r].order) # 0
         /\ req[r].postErr # "error" /\ req[r].setErr # "error")
        => /\ log[r] = <<ChargeEv(req[r].cardToken, TotalCents(req[r].order)),
                         SetEv(req[r].id, "Charged")>>
           /\ req[r].resp = Response("OK", "", TotalCents(req[r].order))
           /\ NoOtherWrite(r) => PersistedStatus(r) = "Charged"

C1_Witness ==
    \E r \in Reqs :
        /\ Done(r) /\ Loaded(r, "charge", "Pending")
        /\ TotalCents(req[r].order) = 4 /\ Len(req[r].order.lineItems) = 2
        /\ req[r].resp.code = "OK" /\ PersistedStatus(r) = "Charged"

\* C2: Charge on a Charged or Fulfilled order fails with Conflict, issues no
\* gateway call and makes no SetOrderStatus write.
C2_ChargeConflict ==
    \A r \in Reqs :
        (Loaded(r, "charge", "Charged") \/ Loaded(r, "charge", "Fulfilled"))
        => /\ Done(r)
           /\ req[r].resp.code = "Conflict"
           /\ log[r] = <<>>
           /\ NoOtherWrite(r) => PersistedStatus(r) = req[r].order.status

C2_Witness ==
    \E r \in Reqs :
        /\ Done(r) /\ Loaded(r, "charge", "Fulfilled")
        /\ req[r].resp.code = "Conflict"

\* C3: Charge on a Cancelled order is rejected as ineligible, issues no
\* gateway call and leaves the status Cancelled.
C3_ChargeCancelledRejected ==
    \A r \in Reqs :
        Loaded(r, "charge", "Cancelled")
        => /\ log[r] = <<>>
           /\ Done(r) => req[r].resp.code = "Conflict"
           /\ NoOtherWrite(r) => PersistedStatus(r) = "Cancelled"

LegalTransitions ==
    {<<"Pending", "Charged">>, <<"Charged", "Fulfilled">>,
     <<"Pending", "Cancelled">>, <<"Charged", "Cancelled">>}

\* C4: Fulfilled and Cancelled are terminal: under any interleaving of
\* Charge, Cancel and Fulfill, every change of a persisted status is one of
\* Pending->Charged, Charged->Fulfilled, Pending->Cancelled,
\* Charged->Cancelled (so none leaves Fulfilled or Cancelled).
C4_OnlyLegalTransitions ==
    [][\A id \in DOMAIN orders :
         orders'[id].status # orders[id].status
         => <<orders[id].status, orders'[id].status>> \in LegalTransitions]_vars

\* C5: if the gateway call of Charge on a Pending order fails, Charge
\* surfaces an error, makes no SetOrderStatus write, and the status stays
\* Pending.
C5_ChargeGatewayFails ==
    \A r \in Reqs :
        (Loaded(r, "charge", "Pending") /\ req[r].postErr = "error")
        => /\ Done(r)
           /\ req[r].resp = ErrorResponse("InternalServerError")
           /\ Events(r, "set") = <<>>
           /\ NoOtherWrite(r) => PersistedStatus(r) = "Pending"

C5_Witness ==
    \E r \in Reqs :
        /\ Done(r) /\ Loaded(r, "charge", "Pending") /\ req[r].postErr = "error"
        /\ Len(Events(r, "charge")) = 1
        /\ PersistedStatus(r) = "Pending"

C7_CancelCharged ==
    \A r \in Reqs :
        (/\ Done(r) /\ Loaded(r, "cancel", "Charged")
         /\ req[r].postErr # "error" /\ req[r].setErr # "error")
        => /\ log[r] = <<ChargeEv(req[r].cardToken, 0 - TotalCents(req[r].order)),
                         SetEv(req[r].id, "Cancelled")>>
           /\ req[r].resp = Response("OK", "cancelled", 0 - TotalCents(req[r].order))
           /\ NoOtherWrite(r) => PersistedStatus(r) = "Cancelled"

C7_Witness ==
    \E r \in Reqs :
        /\ Done(r) /\ Loaded(r, "cancel", "Charged")
        /\ TotalCents(req[r].order) = 8
        /\ req[r].resp = Response("OK", "cancelled", -8)
        /\ PersistedStatus(r) = "Cancelled"

\* C8: Cancel on a Pending order issues no gateway call, writes Cancelled to
\* the Repository (a Get afterwards returns Cancelled), and returns zero
\* refund.
C8_CancelPendingWrites ==
    \A r \in Reqs :
        (Done(r) /\ Loaded(r, "cancel", "Pending") /\ req[r].setErr # "error")
        => /\ log[r] = <<SetEv(req[r].id, "Cancelled")>>
           /\ req[r].resp = Response("OK", "cancelled", 0)
           /\ NoOtherWrite(r) => PersistedStatus(r) = "Cancelled"

\* C9: Cancel on a Fulfilled order fails with Conflict, issues no gateway
\* call and makes no SetOrderStatus write; the persisted order is unchanged.
C9_CancelFulfilled ==
    \A r \in Reqs :
        Loaded(r, "cancel", "Fulfilled")
        => /\ Done(r)
           /\ req[r].resp = ErrorResponse("Conflict")
           /\ log[r] = <<>>
           /\ NoOtherWrite(r) => orders[req[r].id] = req[r].order

C9_Witness ==
    \E r \in Reqs :
        /\ Done(r) /\ Loaded(r, "cancel", "Fulfilled")
        /\ req[r].resp.code = "Conflict"
        /\ PersistedStatus(r) = "Fulfilled"

\* C10: if the refund call of Cancel on a Charged order fails, Cancel
\* surfaces an error, makes no SetOrderStatus write, and the status stays
\* Charged.
C10_CancelRefundFails ==
    \A r \in Reqs :
        (Loaded(r, "cancel", "Charged") /\ req[r].postErr = "error")
        => /\ Done(r)
           /\ req[r].resp = ErrorResponse("InternalServerError")
           /\ Events(r, "set") = <<>>
           /\ NoOtherWrite(r) => PersistedStatus(r) = "Charged"

C10_Witness ==
    \E r \in Reqs :
        /\ Done(r) /\ Loaded(r, "cancel", "Charged") /\ req[r].postErr = "error"
        /\ Len(Events(r, "charge")) = 1
        /\ PersistedStatus(r) = "Charged"

\* C11: Cancel on a Cancelled order succeeds with zero refund, issues no
\* gateway call and leaves the persisted status Cancelled.
C11_CancelCancelled ==
    \A r \in Reqs :
        Loaded(r, "cancel", "Cancelled")
        => /\ Done(r)
           /\ req[r].resp = Response("OK", "cancelled", 0)
           /\ log[r] = <<>>
           /\ NoOtherWrite(r) => PersistedStatus(r) = "Cancelled"

C11_Witness ==
    \E r \in Reqs :
        /\ Done(r) /\ Loaded(r, "cancel", "Cancelled")
        /\ TotalCents(req[r].order) # 0
        /\ req[r].resp.code = "OK" /\ PersistedStatus(r) = "Cancelled"

\* the FulfillLineItem calls for the first n line items of r's order, in order
FulfillCalls(r, n) ==
    [k \in 1..n |-> FulfillEv(req[r].id, req[r].order.lineItems[k].description,
                              req[r].order.lineItems[k].quantity)]

\* C12: Fulfill on a Charged order with items l1..ln issues exactly n
\* FulfillLineItem calls, one per item, in order, each with the order ID and
\* the item's description and quantity; when all succeed it writes Fulfilled
\* and returns fulfilled = true, and it writes Fulfilled only in that case.
C12_FulfillCharged ==
    \A r \in Reqs :
        Loaded(r, "fulfill", "Charged")
        => LET n == Len(req[r].order.lineItems)
               allOk == Len(Events(r, "fulfill")) = n /\ req[r].fulfillErr = "nil"
           IN /\ (Done(r) /\ allOk /\ req[r].setErr # "error")
                 => /\ log[r] = Append(FulfillCalls(r, n), SetEv(req[r].id, "Fulfilled"))
                    /\ req[r].resp = Response("OK", "true", 0)
                    /\ NoOtherWrite(r) => PersistedStatus(r) = "Fulfilled"
              /\ Events(r, "set") # <<>>
                 => /\ allOk
                    /\ log[r] = Append(FulfillCalls(r, n), SetEv(req[r].id, "Fulfilled"))
              /\ Events(r, "fulfill") = FulfillCalls(r, Len(Events(r, "fulfill")))

C12_Witness ==
    \E r \in Reqs :
        /\ Done(r) /\ Loaded(r, "fulfill", "Charged")
        /\ Len(req[r].order.lineItems) = 2
        /\ req[r].order.lineItems[1] # req[r].order.lineItems[2]
        /\ Len(log[r]) = 3
        /\ req[r].resp = Response("OK", "true", 0)
        /\ PersistedStatus(r) = "Fulfilled"

\* C13: if the FulfillLineItem call for item k fails during Fulfill on a
\* Charged order, no call is issued for any later item, no SetOrderStatus
\* write is made, the error is surfaced, and the status stays Charged.
C13_FulfillItemFails ==
    \A r \in Reqs :
        (Loaded(r, "fulfill", "Charged") /\ req[r].fulfillErr = "error")
        => /\ Done(r)
           /\ req[r].resp = ErrorResponse("InternalServerError")
           /\ log[r] = FulfillCalls(r, req[r].idx)
           /\ NoOtherWrite(r) => PersistedStatus(r) = "Charged"

C13_Witness ==
    \E r \in Reqs :
        /\ Done(r) /\ Loaded(r, "fulfill", "Charged") /\ req[r].fulfillErr = "error"
        /\ Len(req[r].order.lineItems) = 2 /\ req[r].idx = 1
        /\ Len(log[r]) = 1
        /\ PersistedStatus(r) = "Charged"

\* C14: Fulfill on an order that is not Charged (Pending, Fulfilled or
\* Cancelled) fails with ValidationError, issues no FulfillLineItem call and
\* makes no SetOrderStatus write.
C14_FulfillNotCharged ==
    \A r \in Reqs :
        (req[r].op = "fulfill" /\ req[r].getErr = "nil"
         /\ req[r].order.status # "Charged")
        => /\ Done(r)
           /\ req[r].resp = ErrorResponse("BadRequest")
           /\ log[r] = <<>>
           /\ NoOtherWrite(r) => PersistedStatus(r) = req[r].order.status

C14_Witness ==
    \E r \in Reqs :
        /\ Done(r) /\ Loaded(r, "fulfill", "Cancelled")
        /\ req[r].resp.code = "BadRequest"

\* the body of request r's POST /orders was decoded and passes the email
\* and line-item validations
ValidBody(r) ==
    /\ req[r].op = "create"
    /\ \E i \in 1..Len(req[r].email) : req[r].email[i] = "@"
    /\ req[r].lineItems # <<>>

\* C15: Create with a customer email lacking '@', or with an empty line-item
\* list, fails with ValidationError and never calls InsertOrder.
C15_CreateInvalidBody ==
    \A r \in Reqs :
        (req[r].op = "create" /\ ~ValidBody(r))
        => /\ Done(r)
           /\ req[r].resp = ErrorResponse("BadRequest")
           /\ log[r] = <<>>
           /\ DOMAIN orders = {}

C15_Witness ==
    \E r \in Reqs :
        /\ Done(r) /\ req[r].op = "create"
        /\ req[r].email = <<"a", "a">> /\ Len(req[r].lineItems) = 2
        /\ req[r].resp.code = "BadRequest"
        /\ log[r] = <<>>

\* C16: Create with a negative computed total fails with ValidationError and
\* performs no Repository write.
C16_CreateNegativeTotal ==
    \A r \in Reqs :
        (ValidBody(r) /\ SumItems(req[r].lineItems) < 0)
        => /\ req[r].resp = ErrorResponse("BadRequest")
           /\ Events(r, "insert") = <<>>
           /\ DOMAIN orders = {}

\* C17: a valid Create persists the order with status Pending and the
\* caller's line items unchanged, the returned order carries the identifier
\* the Repository assigned, and a Get of that identifier afterwards returns
\* status Pending and a total equal to the sum of priceCents x quantity.
C17_CreateValid ==
    \A r \in Reqs :
        (ValidBody(r) /\ SumItems(req[r].lineItems) >= 0 /\ req[r].insertErr = "nil")
        => /\ Done(r)
           /\ req[r].resp = Response("Created", req[r].id, 0)
           /\ req[r].id \in DOMAIN orders
           /\ orders[req[r].id] = [customerEmail |-> req[r].email,
                                   lineItems |-> req[r].lineItems,
                                   status |-> "Pending"]
           /\ req[r].order = orders[req[r].id]
           /\ \E res \in GetOrderResults(req[r].id) : res.err = "nil"
           /\ \A res \in GetOrderResults(req[r].id) :
                res.err = "nil"
                => /\ res.order.status = "Pending"
                   /\ TotalCents(res.order) = SumItems(req[r].lineItems)
           /\ \A q \in Reqs :
                (req[q].op = "get" /\ req[q].id = req[r].id /\ req[q].getErr = "nil")
                => /\ req[q].order.status = "Pending"
                   /\ req[q].order.lineItems = req[r].lineItems

C17_Witness ==
    \E r \in Reqs, q \in Reqs :
        /\ Done(r) /\ ValidBody(r) /\ req[r].insertErr = "nil"
        /\ req[r].lineItems = <<Item("sponge", 2, 2), Item("gift", 0, 3)>>
        /\ req[r].resp.code = "Created"
        /\ Done(q) /\ req[q].op = "get" /\ req[q].id = req[r].id
        /\ req[q].resp.code = "OK"
        /\ TotalCents(req[q].order) = 4

\* C18: when the Repository reports AlreadyExists for a Create, the Create
\* fails with Conflict, distinct from the generic repository failure, and
\* returns no order.
C18_CreateAlreadyExists ==
    \A r \in Reqs :
        (req[r].op = "create" /\ req[r].insertErr = "ErrOrderExists")
        => /\ Done(r)
           /\ req[r].resp = ErrorResponse("Conflict")
           /\ req[r].id = ""

\* C19: Charge, Cancel and Fulfill on an identifier for which the Repository
\* reports NotFound each fail with NotFound, distinct from a generic
\* repository failure, without any gateway call or Repository write.
C19_NotFound ==
    \A r \in Reqs :
        (req[r].op \in {"charge", "cancel", "fulfill"}
         /\ req[r].getErr = "ErrOrderNotFound")
        => /\ Done(r)
           /\ req[r].resp = ErrorResponse("NotFound")
           /\ log[r] = <<>>

\* requests r and q are two charges of one order that each loaded it as
\* Pending with a non-zero total
BothPassed(r, q) ==
    /\ r # q
    /\ req[r].id = req[q].id
    /\ Loaded(r, "charge", "Pending") /\ Loaded(q, "charge", "Pending")
    /\ SumItems(req[r].order.lineItems) # 0

\* C20: two concurrent Charge calls on the same Pending order with non-zero
\* total can both pass the legality check before either writes Charged: the
\* gateway then accepts a charge of the full total from each of them.
C20_DoubleCharge ==
    \A r \in Reqs, q \in Reqs :
        (BothPassed(r, q) /\ req[r].postErr = "nil" /\ req[q].postErr = "nil")
        => /\ ledger[r] = <<SumItems(req[r].order.lineItems)>>
           /\ ledger[q] = <<SumItems(req[q].order.lineItems)>>
           /\ Events(r, "charge") = <<ChargeEv(req[r].cardToken, ledger[r][1])>>
           /\ Events(q, "charge") = <<ChargeEv(req[q].cardToken, ledger[q][1])>>

C20_Witness ==
    \E r \in Reqs, q \in Reqs :
        /\ BothPassed(r, q)
        /\ Done(r) /\ Done(q)
        /\ req[r].resp.code = "OK" /\ req[q].resp.code = "OK"
        /\ ledger[r] = <<SumItems(orders[req[r].id].lineItems)>>
        /\ ledger[q] = ledger[r]

\* the charge-service request of r has been sent and is not answered yet
InFlight(r) == req[r].pc = "InFlight"

\* C21: requests to the charge gateway are serialized process-wide: under
\* any interleaving of Charge and Cancel requests, for the same or different
\* orders, at most one request to the charge gateway is in flight.
C21_ChargeSerialized ==
    \A r \in Reqs, q \in Reqs : (InFlight(r) /\ InFlight(q)) => r = q

C21_Witness ==
    \E r \in Reqs, q \in Reqs :
        /\ req[r].pc = "InFlight" /\ req[r].op = "charge"
        /\ req[q].pc = "Lock" /\ req[q].op \in {"charge", "cancel"}
        /\ mu = TRUE

\* request r has issued no SetOrderStatus
NoSet(r) == \A i \in 1..Len(log[r]) : log[r][i][1] # "set"

\* a gateway call of request r failed
GatewayFailed(r) == req[r].postErr = "error" \/ req[r].fulfillErr = "error"

\* C22: within each Charge, Cancel and Fulfill, every gateway call completes
\* before the SetOrderStatus write is issued and none is issued after it; a
\* failure before the write leaves the persisted status as it was loaded.
C22_GatewayBeforeWrite ==
    \A r \in Reqs :
        /\ \A i \in 1..Len(log[r]) :
             log[r][i][1] = "set" => (i = Len(log[r]) /\ Done(r) /\ ~GatewayFailed(r))
        /\ req[r].pc \in {"Lock", "InFlight", "fulfillOrders"} => NoSet(r)
        /\ (req[r].op \in {"charge", "cancel", "fulfill"} /\ GatewayFailed(r))
           => /\ Done(r)
              /\ NoSet(r)
              /\ NoOtherWrite(r) => PersistedStatus(r) = req[r].order.status

C22_Witness ==
    \E r \in Reqs :
        /\ Done(r) /\ Loaded(r, "fulfill", "Charged")
        /\ Len(req[r].order.lineItems) = 2
        /\ Len(log[r]) = 3 /\ log[r][3][1] = "set"
        /\ \E q \in Reqs :
             /\ Done(q) /\ req[q].op = "cancel" /\ req[q].postErr = "error"
             /\ Len(log[q]) = 1

\* C23: when the gateway call of a Charge or Cancel succeeds and the
\* SetOrderStatus write after it fails, the operation reports an error, not
\* success, and the persisted status stays at its prior value although the
\* gateway has recorded the charge or refund.
C23_WriteFailsAfterGateway ==
    \A r \in Reqs :
        (req[r].op \in {"charge", "cancel"} /\ req[r].postErr = "nil"
         /\ req[r].setErr \notin {"", "nil"})
        => /\ Done(r)
           /\ req[r].resp = ErrorResponse("InternalServerError")
           /\ ledger[r] = <<req[r].amount>>
           /\ NoOtherWrite(r) => PersistedStatus(r) = req[r].order.status

C23_Witness ==
    \E r \in Reqs :
        /\ Done(r) /\ Loaded(r, "charge", "Pending") /\ req[r].setErr = "error"
        /\ req[r].resp.code = "InternalServerError"
        /\ ledger[r] = <<4>> /\ PersistedStatus(r) = "Pending"

\* C24: every operation observes the caller's cancellation signal: once it
\* has fired during an orchestration, that orchestration starts no charge,
\* fulfillment or repository call, a call in progress is aborted, and the
\* operation ends with a cancellation outcome distinct from a generic failure.
C24_ObservesCancellation ==
    [][\A r \in Reqs :
          req[r].ctxDone
          => /\ log'[r] = log[r]
             /\ ledger'[r] = ledger[r]
             /\ req'[r].pc = "done"
                => req'[r].resp.code \notin {"OK", "InternalServerError"}]_vars

\* request r is a SetOrderStatus call for an id that no document is stored
\* under
SetOnMissing(r) ==
    /\ req[r].op = "SetOrderStatus"
    /\ req[r].id = "" \/ req[r].dbErr = "ErrNoDocuments"

\* C25: storage.Instance.SetOrderStatus(id, s) on an id that exists returns
\* no error and updates only the status, so that a GetOrder(id) afterwards
\* returns Status = s with every other field as inserted.
C25_SetOrderStatusUpdates ==
    \A r \in Reqs :
        (req[r].op = "SetOrderStatus" /\ req[r].dbErr = "nil")
        => /\ req[r].err = "nil"
           /\ orders[req[r].id].status = req[r].status

\* C26: storage.Instance.SetOrderStatus(id, s) on an id with no stored
\* record fails with ErrOrderNotFound and leaves the store unchanged.
C26_SetOrderStatusNotFound ==
    \A r \in Reqs :
        SetOnMissing(r)
        => /\ req[r].err = "ErrOrderNotFound"
           /\ log[r] = <<>>

\* no call other than r has written the document r's InsertOrder returned
NoOtherUpdate(r) ==
    \A q \in Reqs \ {r} :
        \A i \in 1..Len(log[q]) :
            ~(log[q][i][1] = "update" /\ log[q][i][2] = req[r].retID)

\* C27: InsertOrder returns the caller's ID when one is set and a non-empty
\* generated ID when it is empty, and GetOrder with the returned ID returns
\* an order equal to the inserted one in every field, ID set to that ID.
C27_InsertGetRoundTrip ==
    \A r \in Reqs :
        (req[r].op = "InsertOrder" /\ req[r].err = "nil")
        => /\ Done(r)
           /\ req[r].id # "" => req[r].retID = req[r].id
           /\ req[r].retID # ""
           /\ req[r].retID \in DOMAIN orders
           /\ NoOtherUpdate(r)
              => /\ orders[req[r].retID].customerEmail = req[r].got.customerEmail
                 /\ orders[req[r].retID].lineItems = req[r].got.lineItems
                 /\ orders[req[r].retID].status = req[r].got.status
                 /\ \A q \in Reqs :
                      (req[q].op = "GetOrder" /\ req[q].id = req[r].retID
                       /\ req[q].err = "nil")
                      => req[q].got = [req[r].got EXCEPT !.ID = req[r].retID]

C27_Witness ==
    \E r \in Reqs, q \in Reqs :
        /\ Done(r) /\ req[r].op = "InsertOrder" /\ req[r].err = "nil"
        /\ req[r].id = "" /\ req[r].retID # ""
        /\ req[r].got.status = "Charged" /\ Len(req[r].got.lineItems) = 2
        /\ Done(q) /\ req[q].op = "GetOrder" /\ req[q].id = req[r].retID
        /\ req[q].err = "nil" /\ req[q].got.ID = req[r].retID
        /\ req[q].got.status = "Charged"

\* C28: InsertOrder with a supplied ID that already has a stored record
\* fails with ErrOrderExists and leaves the stored record unchanged.
C28_InsertExisting ==
    \A r \in Reqs :
        (req[r].op = "InsertOrder" /\ req[r].id # "" /\ req[r].dbErr = "nil")
        => /\ Done(r)
           /\ req[r].err = "ErrOrderExists"
           /\ req[r].retID = ""
           /\ Events(r, "update") = <<>>

C28_Witness ==
    \E r \in Reqs :
        /\ Done(r) /\ req[r].op = "InsertOrder" /\ req[r].id = "o1"
        /\ req[r].dbErr = "nil" /\ req[r].err = "ErrOrderExists"
        /\ orders["o1"].status # req[r].got.status

\* the stored orders a GetOrders with filter `status` is to return
Matching(status) ==
    {OrderStruct(i, orders[i].customerEmail, orders[i].lineItems, orders[i].status) :
        i \in {x \in DOMAIN orders : status = "all" \/ orders[x].status = status}}

\* C29: GetOrders with the all sentinel returns every stored order whatever
\* its status; with a real status it returns exactly the stored orders of
\* that status; when none match it returns an empty result and no error.
C29_GetOrdersFilter ==
    [][\A r \in Reqs :
          (req[r].op = "none" /\ req'[r].op = "GetOrders" /\ req'[r].dbErr = "nil")
          => /\ req'[r].err = "nil"
             /\ req'[r].list = Matching(req'[r].status)]_vars

C29_Witness ==
    \E r \in Reqs, q \in Reqs :
        /\ req[r].op = "GetOrders" /\ req[r].err = "nil"
        /\ req[r].status = "Charged" /\ Cardinality(req[r].list) = 1
        /\ req[q].op = "GetOrders" /\ req[q].err = "nil"
        /\ req[q].status = "Pending" /\ req[q].list = {}
        /\ DOMAIN orders # {}

\* C30: GetOrder fails with ErrOrderNotFound for every id, the empty string
\* included, that matches no stored record, and returns no order then.
C30_GetOrderNotFound ==
    \A r \in Reqs :
        (req[r].op = "GetOrder"
         /\ (req[r].id = "" \/ req[r].dbErr = "ErrNoDocuments"))
        => /\ req[r].err = "ErrOrderNotFound"
           /\ req[r].got = ZeroOrder

\* request r is a Fulfill of a Charged order that failed at one of its items
FulfillFailed(r) ==
    /\ Done(r) /\ Loaded(r, "fulfill", "Charged")
    /\ req[r].fulfillErr = "error"

\* C31: Fulfill keeps no partial-completion state: after a Fulfill on a
\* Charged order failed at item k, another Fulfill of the same order issues
\* FulfillLineItem for every item from the first, those already accepted
\* included, and writes Fulfilled if all of them succeed.
C31_FulfillRetryFromFirst ==
    \A r \in Reqs, q \in Reqs :
        (r # q /\ FulfillFailed(r) /\ Loaded(q, "fulfill", "Charged")
         /\ req[q].id = req[r].id)
        => /\ \A i \in 1..Len(log[q]) :
                log[q][i][1] = "fulfill"
                => /\ i <= Len(req[q].order.lineItems)
                   /\ log[q][i] = FulfillEv(req[q].id,
                                            req[q].order.lineItems[i].description,
                                            req[q].order.lineItems[i].quantity)
           /\ req[q].order.lineItems = req[r].order.lineItems
           /\ (Done(q) /\ req[q].fulfillErr = "nil" /\ req[q].setErr = "nil")
              => /\ Len(log[q]) = Len(req[q].order.lineItems) + 1
                 /\ log[q][Len(log[q])] = SetEv(req[q].id, "Fulfilled")
                 /\ req[q].resp = Response("OK", "true", 0)
                 /\ NoOtherWrite(q) => PersistedStatus(q) = "Fulfilled"

C31_Witness ==
    \E r \in Reqs, q \in Reqs :
        /\ r < q /\ FulfillFailed(r) /\ req[r].idx = 2 /\ Len(log[r]) = 2
        /\ Done(q) /\ Loaded(q, "fulfill", "Charged") /\ req[q].id = req[r].id
        /\ Len(log[q]) = 3 /\ log[q][1] = log[r][1]
        /\ PersistedStatus(q) = "Fulfilled"

\* the sum of a sequence of amounts
RECURSIVE SumAmounts(_)
SumAmounts(amounts) ==
    IF amounts = <<>> THEN 0 ELSE amounts[1] + SumAmounts(Tail(amounts))

\* the sum of the amounts the charge service accepted from the requests rs
\* for order id
RECURSIVE AcceptedBy(_, _)
AcceptedBy(rs, id) ==
    IF rs = {} THEN 0
    ELSE LET r == CHOOSE x \in rs : TRUE IN
         (IF req[r].id = id THEN SumAmounts(ledger[r]) ELSE 0)
         + AcceptedBy(rs \ {r}, id)

Accepted(id) == AcceptedBy(Reqs, id)

\* no SetOrderStatus write has failed
NoWriteFailed == \A r \in Reqs : req[r].setErr \in {"", "nil"}

\* C32: in a sequential execution of Charge, Cancel and Fulfill in which no
\* SetOrderStatus write fails, between requests the amounts the charge
\* gateway accepted for an order sum to the order's total when its persisted
\* status is Charged or Fulfilled, and to 0 when it is Pending or Cancelled.
C32_MoneyConserved ==
    \A id \in DOMAIN orders :
        (Quiescent /\ NoWriteFailed)
        => /\ orders[id].status \in {"Charged", "Fulfilled"}
              => Accepted(id) = SumItems(orders[id].lineItems)
           /\ orders[id].status \in {"Pending", "Cancelled"}
              => Accepted(id) = 0

C32_Witness ==
    \E r \in Reqs, q \in Reqs :
        /\ Quiescent /\ NoWriteFailed
        /\ Done(r) /\ req[r].op = "charge" /\ ledger[r] = <<4>>
        /\ Done(q) /\ req[q].op = "cancel" /\ ledger[q] = <<0 - 4>>
        /\ req[q].id = req[r].id
        /\ orders[req[r].id].status = "Cancelled"

\* the requests of handler op for order id whose gateway call was accepted
AcceptedCalls(op, id) ==
    {r \in Reqs : req[r].op = op /\ req[r].id = id /\ ledger[r] # <<>>}

\* C33: under any interleaving of concurrent Cancel requests for one order,
\* the refunds the charge gateway accepted for it never outnumber the charges
\* it accepted for it.  An order of the initial state that is Charged was
\* charged once before the requests of the behaviour.
C33_RefundsWithinCharges ==
    \A id \in DOMAIN orders :
        Cardinality(AcceptedCalls("cancel", id))
            <= Cardinality(AcceptedCalls("charge", id)) + 1

\* C34: when two storage.Instance.InsertOrder calls with the same supplied ID
\* run concurrently, exactly one succeeds and the other returns
\* ErrOrderExists, and the stored record is that of the successful call.
C34_InsertSameIDOnce ==
    \A r \in Reqs, q \in Reqs :
        (r # q /\ Done(r) /\ Done(q)
         /\ req[r].op = "InsertOrder" /\ req[q].op = "InsertOrder"
         /\ req[r].id # "" /\ req[q].id = req[r].id
         /\ req[r].err = "nil")
        => /\ req[q].err # "nil"
           /\ orders[req[r].id] = update(req[r].id, req[r].got)

\* C35: the charge lock is held for one charge-gateway request only and is
\* released on its success and on its error path: given that every gateway
\* request returns and scheduling is fair, every Charge or Cancel waiting for
\* the lock issues its gateway request, its orchestration terminates, and no
\* request is left holding the lock.
C35_LockReleased ==
    /\ \A r \in Reqs : (req[r].pc = "Lock") ~> InFlight(r)
    /\ \A r \in Reqs : (req[r].pc \in {"Lock", "InFlight", "SetOrderStatus"}) ~> Done(r)
    /\ (mu = TRUE) ~> (mu = FALSE)
    /\ [](mu = TRUE <=> \E r \in Reqs : InFlight(r))

C35_Witness ==
    \E r \in Reqs, q \in Reqs :
        /\ Done(r) /\ req[r].postErr = "error"
        /\ req[r].resp.code = "InternalServerError"
        /\ InFlight(q) /\ mu = TRUE

====
